---- MODULE Spec2Model ----
(***************************************************************************)
(* Model of NewsScraperProcessor (src/scraper.py): the bounded-retry       *)
(* orchestrator scrape_news, one attempt of _scrape_with_selenium with its *)
(* scoped browser session, the listing loop, the detail-page kicker        *)
(* recovery loop, and the field accessor _safe_find_element.               *)
(*                                                                         *)
(* Text is a sequence of characters so that str.strip() is computed, not   *)
(* assumed.  Python's None is the one-element sequence NoneVal, which is   *)
(* different from every text the page can expose.                          *)
(***************************************************************************)
EXTENDS Naturals, Integers, Sequences, FiniteSets, TLC

\* ------------------------------------------------------------------ bounds
\* largest number of listing containers find_elements returns
MaxItems == 2
\* latest clock reading
MaxClock == 3

\* ------------------------------------------------------- program constants
max_retries == 3
\* lengths of the two ordered selector lists
NumContainerSelectors == 6
NumPageSelectors == 4

\* --------------------------------------------------------------- text model
NoneVal == <<"None">>

\* texts the title link can expose (before trimming)
TitleTexts == {<<>>, <<" ">>, <<" ", " ">>, <<"a">>, <<" ", "a", " ">>}
\* texts a kicker element of a listing container can expose (before trimming)
KickerTexts == {<<>>, <<" ">>, <<"a">>, <<" ", "b", " ">>}
\* texts a kicker element of a detail page can expose (before trimming)
PageKickerTexts == {<<>>, <<" ">>, <<" ", "b", " ">>}
RawTexts == TitleTexts \cup KickerTexts \cup PageKickerTexts
\* values get_attribute("href") / get_attribute("src") can give: None when
\* the element has no such attribute, else a URL
Hrefs == {NoneVal, <<"a">>}
Srcs == {NoneVal, <<"a">>}

RECURSIVE LStrip(_)
LStrip(s) == IF s = <<>> THEN <<>>
             ELSE IF Head(s) = " " THEN LStrip(Tail(s)) ELSE s

RECURSIVE RStrip(_)
RStrip(s) == IF s = <<>> THEN <<>>
             ELSE IF s[Len(s)] = " " THEN RStrip(SubSeq(s, 1, Len(s) - 1)) ELSE s

\* str.strip()
Strip(s) == RStrip(LStrip(s))

\* Python truthiness of a str-or-None value
Truthy(v) == v # NoneVal /\ v # <<>>

\* ---------------------------------------------------------------- faults
\* TimeoutException and NoSuchElementException are subclasses of
\* WebDriverException; "Exception" stands for any Exception outside that tree.
NavFaults == {"TimeoutException", "WebDriverException", "Exception"}
FindFaults == {"NoSuchElementException", "WebDriverException", "Exception"}

VARIABLES
    pc,            \* control point of the single thread
    attempt,       \* scrape_news: loop variable of range(max_retries)
    calls,         \* number of _scrape_with_selenium invocations so far
    sleeps,        \* number of time.sleep(retry_delay) calls so far
    outcomes,      \* how each finished attempt ended: "ok", "soft", "hard"
    result,        \* value returned by scrape_news (meaningful at pc = "returned")
    raised,        \* fault raised by scrape_news to its caller ("none" if none)
    exc,           \* exception propagating out of the attempt ("none" if none)
    driver,        \* _create_driver: local driver (0 = None, else the session of attempt n)
    open,          \* set of browser sessions that exist and were not quit
    page,          \* what the session shows: "blank", "listing", "detail"
    containers,    \* len(article_containers)
    idx,           \* position of the running for loop (1-based)
    sel,           \* position in the running selector list (1-based)
    tried,         \* log: positions of the running list evaluated so far
    hit,           \* log: first non-empty trimmed text the running list gave
    article_info,  \* the draft under construction in the listing loop
    article_data,  \* drafts of this attempt
    articles,      \* Articles of this attempt
    items,         \* log: per container examined, "kept" or why it was dropped
    listed,        \* log: the drafts as the listing loop appended them
    item_of,       \* log: per draft, the position of its listing container
    cmatch,        \* log: per draft, hit of the container-scoped list
    pmatch,        \* log: per processed draft, hit of the page-scoped list
    born,          \* log: per Article, the invocation (calls) that built it
    recov,         \* log: per processed draft, how its recovery step ended
    origin,        \* log: per Article, the index of the draft it was built from
    navs,          \* log: number of driver.get(link) calls in this attempt
    sf_in,         \* input of a stand-alone _safe_find_element call
    sf_out,        \* its outcome
    ar_pc,         \* stand-alone Article construction: "idle", "running", "built"
    ar_in,         \* its draft, the scrape_date passed in, the scrape's start time
    ar_out,        \* the Article constructed
    now            \* the clock datetime.now() reads

vars == <<pc, attempt, calls, sleeps, outcomes, result, raised, exc, driver,
          open, page, containers, idx, sel, tried, hit, article_info,
          article_data, articles, items, listed, item_of, cmatch, pmatch,
          born, recov, origin, navs, sf_in, sf_out, ar_pc, ar_in, ar_out, now>>

orchVars == <<attempt, calls, sleeps, outcomes, result, raised>>
sessVars == <<driver, open>>
listVars == <<containers, article_info, article_data, items, listed, item_of,
             cmatch>>
recVars == <<articles, recov, origin, navs, pmatch, born>>
sfVars == <<sf_in, sf_out>>
arVars == <<ar_pc, ar_in, ar_out, now>>

\* ------------------------------------------------------ _safe_find_element
TAG_NAME == "tag name"
CLASS_NAME == "class name"
CSS_SELECTOR == "css selector"
Bys == {CLASS_NAME, TAG_NAME, CSS_SELECTOR}

\* A lookup is what container.find_element(by, value) and the access to the
\* element do: find = "ok" with the element's text and src, or the fault.
Lookups == [find : {"ok"}, text : RawTexts, src : Srcs]
           \cup [find : FindFaults, text : {<<>>}, src : {NoneVal}]

Returned(v) == [raised |-> "none", value |-> v]
Raises(f) == [raised |-> f, value |-> NoneVal]
\* no call made yet
Pending == [raised |-> "pending", value |-> NoneVal]

\* variant: only NoSuchElementException is caught, other faults propagate
safe_find_element_Narrow(lookup, by, default) ==
    IF lookup.find = "ok"
    THEN IF by # TAG_NAME THEN Returned(Strip(lookup.text))
                          ELSE Returned(lookup.src)
    ELSE IF lookup.find = "NoSuchElementException" THEN Returned(default)
    ELSE Raises(lookup.find)

safe_find_element(lookup, by, default) ==
    IF lookup.find = "ok"
    THEN IF by # TAG_NAME THEN Returned(Strip(lookup.text))
                          ELSE Returned(lookup.src)
    ELSE IF lookup.find = "NoSuchElementException" THEN Returned(default)
    ELSE Returned(default)

\* ------------------------------------------------------------------- Article
EmptyInfo == [title |-> <<>>, link |-> <<>>, kicker |-> <<>>, image |-> <<>>]

\* the Article built from a draft, its timestamp left aside
Article(info) == [title |-> info.title, kicker |-> info.kicker,
                  link |-> info.link, image |-> info.image]

\* scrape_date values: None, or datetime.isoformat() of a clock reading
NoDate == [none |-> TRUE, t |-> 0]
IsoFormat(t) == [none |-> FALSE, t |-> t]

\* variant: the timestamp is set only when no scrape_date was passed
ArticleNew_KeepPassed(title, kicker, link, image, scrape_date, clock) ==
    [title |-> title, kicker |-> kicker, link |-> link, image |-> image,
     scrape_date |-> IF scrape_date = NoDate THEN IsoFormat(clock) ELSE scrape_date]

\* the dataclass constructor followed by __post_init__
ArticleNew(title, kicker, link, image, scrape_date, clock) ==
    [title |-> title, kicker |-> kicker, link |-> link, image |-> image,
     scrape_date |-> IsoFormat(clock)]

\* no stand-alone construction is going on
ArticleIdle ==
    /\ ar_pc = "idle"
    /\ ar_in = [info |-> EmptyInfo, scrape_date |-> NoDate, start |-> 0]
    /\ ar_out = ArticleNew(<<>>, <<>>, <<>>, <<>>, NoDate, 0)
    /\ now = 0

\* ---------------------------------------------------------------------- Init
\* the state of a NewsScraperProcessor on which scrape_news was not called yet
ScraperInit ==
    /\ pc = "loop"
    /\ attempt = 0
    /\ calls = 0
    /\ sleeps = 0
    /\ outcomes = <<>>
    /\ result = <<>>
    /\ raised = "none"
    /\ exc = "none"
    /\ driver = 0
    /\ open = {}
    /\ page = "blank"
    /\ containers = 0
    /\ idx = 0
    /\ sel = 0
    /\ tried = <<>>
    /\ hit = <<>>
    /\ article_info = EmptyInfo
    /\ article_data = <<>>
    /\ articles = <<>>
    /\ items = <<>>
    /\ listed = <<>>
    /\ item_of = <<>>
    /\ cmatch = <<>>
    /\ pmatch = <<>>
    /\ born = <<>>
    /\ recov = <<>>
    /\ origin = <<>>
    /\ navs = 0

\* no stand-alone _safe_find_element call is going on
FindIdle ==
    /\ sf_in = [lookup |-> [find |-> "ok", text |-> <<>>, src |-> NoneVal],
                by |-> CLASS_NAME, default |-> <<>>]
    /\ sf_out = Pending

Init == ScraperInit /\ FindIdle /\ ArticleIdle

\* ------------------------------------------------------------- scrape_news
\* for attempt in range(max_retries): articles = self._scrape_with_selenium()
StartAttempt ==
    /\ pc = "loop"
    /\ attempt < max_retries
    /\ calls' = calls + 1
    /\ pc' = "create_driver"
    /\ exc' = "none"
    /\ driver' = 0
    /\ page' = "blank"
    /\ containers' = 0
    /\ idx' = 0
    /\ sel' = 0
    /\ tried' = <<>>
    /\ hit' = <<>>
    /\ article_info' = EmptyInfo
    /\ article_data' = <<>>
    /\ articles' = <<>>
    /\ items' = <<>>
    /\ listed' = <<>>
    /\ item_of' = <<>>
    /\ cmatch' = <<>>
    /\ pmatch' = <<>>
    /\ born' = <<>>
    /\ recov' = <<>>
    /\ origin' = <<>>
    /\ navs' = 0
    /\ UNCHANGED <<attempt, sleeps, outcomes, result, raised, open>>
    /\ UNCHANGED <<sfVars, arVars>>

\* the loop ran out: return []
ReturnEmpty ==
    /\ pc = "loop"
    /\ attempt >= max_retries
    /\ result' = <<>>
    /\ pc' = "returned"
    /\ UNCHANGED <<attempt, calls, sleeps, outcomes, raised, exc, page, idx, sel, tried, hit>>
    /\ UNCHANGED <<sessVars, listVars, recVars, sfVars, arVars>>

\* ------------------------------------------------------------ _create_driver
\* webdriver.Chrome(...) then set_page_load_timeout(30), then yield
CreateDriver ==
    /\ pc = "create_driver"
    /\ \/ \* Chrome() raises: driver stays None
          /\ \E f \in {"WebDriverException", "Exception"} : exc' = f
          /\ pc' = "teardown"
          /\ UNCHANGED sessVars
       \/ \* the session exists, named after the attempt that created it
          /\ driver' = calls
          /\ open' = open \cup {calls}
          /\ \/ /\ pc' = "get_listing"
                /\ exc' = exc
             \/ \* set_page_load_timeout raises
                /\ \E f \in {"WebDriverException", "Exception"} : exc' = f
                /\ pc' = "teardown"
    /\ UNCHANGED <<orchVars, page, idx, sel, tried, hit, listVars, recVars, sfVars, arVars>>

\* variant: the session is never quit
QuitIfDriver_Leak(d, sessions) == sessions

\* finally: if driver: driver.quit(); control returns to scrape_news
QuitIfDriver(d, sessions) == IF d # 0 THEN sessions \ {d} ELSE sessions

\* The locals of _scrape_with_selenium other than the list it returns go
\* out of scope here.
Teardown ==
    /\ pc = "teardown"
    /\ open' = QuitIfDriver(driver, open)
    /\ driver' = 0
    /\ pc' = "handle"
    /\ page' = "blank"
    /\ containers' = 0
    /\ idx' = 0
    /\ sel' = 0
    /\ tried' = <<>>
    /\ hit' = <<>>
    /\ article_info' = EmptyInfo
    /\ article_data' = <<>>
    /\ items' = <<>>
    /\ listed' = <<>>
    /\ item_of' = <<>>
    /\ cmatch' = <<>>
    /\ pmatch' = <<>>
    /\ recov' = <<>>
    /\ navs' = 0
    /\ UNCHANGED <<orchVars, exc, articles, origin, born, sfVars, arVars>>

\* variant: a non-empty list is not recognised
HasArticles_Never(as) == FALSE

\* if articles: (a non-empty list is truthy)
HasArticles(as) == as # <<>>

\* variants: the last-attempt test is off by one, either way
RetriesLeft_Early(a) == a < max_retries - 2
RetriesLeft_Late(a) == a < max_retries

\* if attempt < self.max_retries - 1:
RetriesLeft(a) == a < max_retries - 1

\* articles is non-empty: return articles
ReturnArticles ==
    /\ pc = "handle"
    /\ exc = "none"
    /\ HasArticles(articles)
    /\ result' = articles
    /\ outcomes' = Append(outcomes, "ok")
    /\ pc' = "returned"
    /\ UNCHANGED <<attempt, calls, sleeps, raised, exc, page, idx, sel, tried, hit>>
    /\ UNCHANGED <<sessVars, listVars, recVars, sfVars, arVars>>

\* articles is empty: logger.warning(...) and on to the next iteration
WarnNoArticles ==
    /\ pc = "handle"
    /\ exc = "none"
    /\ ~HasArticles(articles)
    /\ outcomes' = Append(outcomes, "soft")
    /\ attempt' = attempt + 1
    /\ pc' = "loop"
    /\ UNCHANGED <<calls, sleeps, result, raised, exc, page, idx, sel, tried, hit>>
    /\ UNCHANGED <<sessVars, listVars, recVars, sfVars, arVars>>

\* except Exception, attempts remain: time.sleep(self.retry_delay)
RetryAfterFault ==
    /\ pc = "handle"
    /\ exc # "none"
    /\ RetriesLeft(attempt)
    /\ outcomes' = Append(outcomes, "hard")
    /\ sleeps' = sleeps + 1
    /\ pc' = "sleeping"
    /\ UNCHANGED <<attempt, calls, result, raised, exc, page, idx, sel, tried, hit>>
    /\ UNCHANGED <<sessVars, listVars, recVars, sfVars, arVars>>

\* variant: the sleep is over and the same iteration is run again
WakeUp_Stay ==
    /\ pc = "sleeping"
    /\ attempt' = attempt
    /\ exc' = "none"
    /\ pc' = "loop"
    /\ UNCHANGED <<calls, sleeps, outcomes, result, raised, page, idx, sel, tried, hit>>
    /\ UNCHANGED <<sessVars, listVars, recVars, sfVars, arVars>>

\* the sleep is over: next iteration of the loop
WakeUp ==
    /\ pc = "sleeping"
    /\ attempt' = attempt + 1
    /\ exc' = "none"
    /\ pc' = "loop"
    /\ UNCHANGED <<calls, sleeps, outcomes, result, raised, page, idx, sel, tried, hit>>
    /\ UNCHANGED <<sessVars, listVars, recVars, sfVars, arVars>>

\* variant: the last attempt's fault is swallowed and [] returned
RaiseLast_Swallow ==
    /\ pc = "handle"
    /\ exc # "none"
    /\ ~RetriesLeft(attempt)
    /\ outcomes' = Append(outcomes, "hard")
    /\ result' = <<>>
    /\ pc' = "returned"
    /\ UNCHANGED <<attempt, calls, sleeps, raised, exc, page, idx, sel, tried, hit>>
    /\ UNCHANGED <<sessVars, listVars, recVars, sfVars, arVars>>

\* except Exception, last attempt: raise
RaiseLast ==
    /\ pc = "handle"
    /\ exc # "none"
    /\ ~RetriesLeft(attempt)
    /\ outcomes' = Append(outcomes, "hard")
    /\ raised' = exc
    /\ pc' = "raised"
    /\ UNCHANGED <<attempt, calls, sleeps, result, exc, page, idx, sel, tried, hit>>
    /\ UNCHANGED <<sessVars, listVars, recVars, sfVars, arVars>>

\* ------------------------------------------- _scrape_with_selenium: listing
\* variant: a fault of the listing navigation is logged and not re-raised
GetListing_Swallow ==
    /\ pc = "get_listing"
    /\ \/ /\ page' = "listing"
          /\ pc' = "wait_listing"
          /\ exc' = exc
       \/ /\ \E f \in NavFaults : TRUE
          /\ pc' = "wait_listing"
          /\ exc' = exc
          /\ page' = page
    /\ UNCHANGED <<orchVars, sessVars, idx, sel, tried, hit, listVars, recVars, sfVars, arVars>>

\* driver.get(self.base_url); every fault is logged and re-raised
GetListing ==
    /\ pc = "get_listing"
    /\ \/ /\ page' = "listing"
          /\ pc' = "wait_listing"
          /\ exc' = exc
       \/ /\ \E f \in NavFaults : exc' = f
          /\ pc' = "teardown"
          /\ page' = page
    /\ UNCHANGED <<orchVars, sessVars, idx, sel, tried, hit, listVars, recVars, sfVars, arVars>>

\* WebDriverWait(driver, 20).until(presence of "contenedor_dato_modulo")
WaitListing ==
    /\ pc = "wait_listing"
    /\ \/ /\ pc' = "find_containers"
          /\ exc' = exc
       \/ /\ \E f \in NavFaults : exc' = f
          /\ pc' = "teardown"
    /\ UNCHANGED <<orchVars, sessVars, page, idx, sel, tried, hit, listVars, recVars, sfVars, arVars>>

\* Where control goes after listing item i of n: the next container, or,
\* past the end, the recovery for loop (over at once when there is no draft).
ListingNextPc(i, n, data) ==
    IF i < n THEN "item_title"
    ELSE IF Len(data) > 0 THEN "recover" ELSE "teardown"

ListingNextIdx(i, n) == IF i < n THEN i + 1 ELSE 1

\* article_containers = driver.find_elements(...)
FindContainers ==
    /\ pc = "find_containers"
    /\ \/ /\ \E n \in 0..MaxItems : 
                /\ containers' = n
                /\ pc' = ListingNextPc(0, n, article_data)
          /\ idx' = 1
          /\ exc' = exc
       \/ /\ \E f \in {"WebDriverException", "Exception"} : exc' = f
          /\ pc' = "teardown"
          /\ UNCHANGED <<containers, idx>>
    /\ UNCHANGED <<orchVars, sessVars, page, sel, tried, hit, article_info,
                   article_data, items, listed, item_of, cmatch, recVars, sfVars, arVars>>

\* variant: a fault inside one item escapes the item's try block
SkipItem_Abort(why) ==
    /\ items' = Append(items, why)
    /\ pc' = IF why = "fault" THEN "teardown"
             ELSE ListingNextPc(idx, containers, article_data)
    /\ exc' = IF why = "fault" THEN "Exception" ELSE exc
    /\ idx' = ListingNextIdx(idx, containers)
    /\ sel' = 0
    /\ tried' = <<>>
    /\ hit' = <<>>
    /\ article_info' = EmptyInfo
    /\ UNCHANGED <<article_data, listed, item_of, cmatch>>

\* continue: the listing loop drops the current container; the item's
\* except Exception (lines 198-200) lets no fault out
SkipItem(why) ==
    /\ items' = Append(items, why)
    /\ pc' = ListingNextPc(idx, containers, article_data)
    /\ exc' = exc
    /\ idx' = ListingNextIdx(idx, containers)
    /\ sel' = 0
    /\ tried' = <<>>
    /\ hit' = <<>>
    /\ article_info' = EmptyInfo
    /\ UNCHANGED <<article_data, listed, item_of, cmatch>>

\* variant: a blank title is let through
TitleMissing_Never(title) == FALSE

\* if not article_info['title']: continue
TitleMissing(title) == ~Truthy(title)

\* lines 159-174: a fresh article_info, the title link lookup, the title test
ItemTitle ==
    /\ pc = "item_title"
    /\ \/ \* NoSuchElementException: continue; any other fault: the item's
          \* except Exception logs it and continues
          \E f \in FindFaults :
             SkipItem(IF f = "NoSuchElementException" THEN "no_title" ELSE "fault")
       \/ \E raw \in TitleTexts, href \in Hrefs :
             IF TitleMissing(Strip(raw))
             THEN SkipItem("blank_title")
             ELSE /\ article_info' = [EmptyInfo EXCEPT !.title = Strip(raw),
                                                       !.link = href]
                  /\ sel' = 1
                  /\ tried' = <<>>
                  /\ hit' = <<>>
                  /\ pc' = "item_kicker"
                  /\ UNCHANGED <<exc, idx, article_data, items, listed, item_of,
                                 cmatch>>
    /\ UNCHANGED <<orchVars, sessVars, page, containers, recVars, sfVars, arVars>>

\* what container.find_element(*selector) followed by element.text does
TextLookups == [find : {"ok"}, text : KickerTexts] \cup [find : FindFaults, text : {<<>>}]

\* what driver.find_element(*selector) followed by element.text does
PageLookups == [find : {"ok"}, text : PageKickerTexts] \cup [find : FindFaults, text : {<<>>}]

\* variant: any found element ends the list, whatever its text
Matches_Any(l) == l.find = "ok"

\* the selector found an element and "if kicker_text:" holds
Matches(l) == l.find = "ok" /\ Truthy(Strip(l.text))

\* variant: no break
LoopDone_NoBreak(matched, s, n) == s >= n

\* the for loop over a selector list of length n is left after position s:
\* break on a match, or the list ran out
LoopDone(matched, s, n) == matched \/ s >= n

\* log: the first non-empty trimmed text seen in the running list
FirstHit(h, l) ==
    IF h = <<>> /\ l.find = "ok" /\ Strip(l.text) # <<>> THEN Strip(l.text) ELSE h

\* lines 185-193: one container-scoped selector
ItemKicker ==
    /\ pc = "item_kicker"
    /\ \E l \in TextLookups :
          IF l.find \in {"ok", "NoSuchElementException"}
          THEN /\ article_info' = IF Matches(l)
                                  THEN [article_info EXCEPT !.kicker = Strip(l.text)]
                                  ELSE article_info
               /\ tried' = Append(tried, sel)
               /\ hit' = FirstHit(hit, l)
               /\ IF LoopDone(Matches(l), sel, NumContainerSelectors)
                  THEN pc' = "item_image" /\ sel' = 0
                  ELSE pc' = "item_kicker" /\ sel' = sel + 1
               /\ UNCHANGED <<exc, idx, article_data, items, listed, item_of, cmatch>>
          ELSE \* any other fault: except Exception, continue
               SkipItem("fault")
    /\ UNCHANGED <<orchVars, sessVars, page, containers, recVars, sfVars, arVars>>

\* lines 194-196: the image through _safe_find_element, then append
ItemImage ==
    /\ pc = "item_image"
    /\ \E l \in Lookups :
          LET r == safe_find_element(l, TAG_NAME, <<>>)
              info == [article_info EXCEPT !.image = r.value]
          IN  IF r.raised = "none"
              THEN /\ article_data' = Append(article_data, info)
                   /\ listed' = Append(listed, info)
                   /\ items' = Append(items, "kept")
                   /\ item_of' = Append(item_of, idx)
                   /\ cmatch' = Append(cmatch, hit)
                   /\ pc' = ListingNextPc(idx, containers, Append(article_data, info))
                   /\ idx' = ListingNextIdx(idx, containers)
                   /\ sel' = 0
                   /\ tried' = <<>>
                   /\ hit' = <<>>
                   /\ article_info' = EmptyInfo
                   /\ exc' = exc
              ELSE SkipItem("fault")
    /\ UNCHANGED <<orchVars, sessVars, page, containers, recVars, sfVars, arVars>>

\* ------------------------------------------ _scrape_with_selenium: recovery
\* variant: the link is not looked at
NeedsRecovery_NoLink(info) == ~Truthy(info.kicker)

\* if not article_info['kicker'] and article_info['link']:
NeedsRecovery(info) == ~Truthy(info.kicker) /\ Truthy(info.link)

\* variant: after the recovery loop the containers are looked up again on
\* whatever page the session is on
RecoverNextPc_Relist(i, data) == IF i < Len(data) THEN "recover" ELSE "find_containers"

\* where control goes after draft i: the next draft, or the return
RecoverNextPc(i, data) == IF i < Len(data) THEN "recover" ELSE "teardown"

\* variant: a fault inside one draft escapes the draft's try block
ContinueRecovery_Abort(status) ==
    /\ recov' = Append(recov, status)
    /\ pmatch' = Append(pmatch, hit)
    /\ pc' = IF status = "error" THEN "teardown"
             ELSE RecoverNextPc(idx, article_data)
    /\ exc' = IF status = "error" THEN "Exception" ELSE exc
    /\ idx' = idx + 1
    /\ sel' = 0
    /\ tried' = <<>>
    /\ hit' = <<>>
    /\ UNCHANGED <<article_data, articles, origin, born>>

\* continue: the recovery loop moves on without building an Article; the
\* draft's handlers (lines 209-222, 249-251) let no fault out
ContinueRecovery(status) ==
    /\ recov' = Append(recov, status)
    /\ pmatch' = Append(pmatch, hit)
    /\ pc' = RecoverNextPc(idx, article_data)
    /\ exc' = exc
    /\ idx' = idx + 1
    /\ sel' = 0
    /\ tried' = <<>>
    /\ hit' = <<>>
    /\ UNCHANGED <<article_data, articles, origin, born>>

\* lines 204-214: driver.get(article_info['link'])
RecoverNavigate ==
    /\ pc = "recover"
    /\ NeedsRecovery(article_data[idx])
    /\ navs' = navs + 1
    /\ \/ /\ page' = "detail"
          /\ pc' = "recover_wait"
          /\ UNCHANGED <<exc, idx, sel, tried, hit, article_data, articles,
                         recov, origin, pmatch, born>>
       \/ \* except TimeoutException: continue
          /\ ContinueRecovery("nav_timeout")
          /\ page' = page
       \/ \* except WebDriverException: continue
          /\ ContinueRecovery("nav_fault")
          /\ page' = page
       \/ \* anything else: the draft's except Exception, continue
          /\ ContinueRecovery("error")
          /\ page' = page
    /\ UNCHANGED <<orchVars, sessVars, containers, article_info, items,
                   listed, item_of, cmatch, sfVars, arVars>>

\* lines 216-222: WebDriverWait(driver, 10).until(presence of "contenido_noticia")
RecoverWait ==
    /\ pc = "recover_wait"
    /\ \/ /\ pc' = "recover_kicker"
          /\ sel' = 1
          /\ tried' = <<>>
          /\ hit' = <<>>
          /\ UNCHANGED <<exc, idx, article_data, articles, recov, origin,
                         pmatch, born>>
       \/ \* except TimeoutException: continue
          ContinueRecovery("wait_timeout")
       \/ \* anything else: the draft's except Exception, continue
          ContinueRecovery("error")
    /\ UNCHANGED <<orchVars, sessVars, page, containers, article_info,
                   items, listed, item_of, cmatch, navs, sfVars, arVars>>

\* lines 231-239: one page-scoped selector
RecoverKicker ==
    /\ pc = "recover_kicker"
    /\ \E l \in PageLookups :
          IF l.find \in {"ok", "NoSuchElementException"}
          THEN /\ article_data' = IF Matches(l)
                                  THEN [article_data EXCEPT ![idx].kicker = Strip(l.text)]
                                  ELSE article_data
               /\ tried' = Append(tried, sel)
               /\ hit' = FirstHit(hit, l)
               /\ IF LoopDone(Matches(l), sel, NumPageSelectors)
                  THEN pc' = "build" /\ sel' = 0
                  ELSE pc' = "recover_kicker" /\ sel' = sel + 1
               /\ UNCHANGED <<exc, idx, articles, recov, origin, pmatch, born>>
          ELSE \* any other fault: the draft's except Exception, continue
               ContinueRecovery("error")
    /\ UNCHANGED <<orchVars, sessVars, page, containers, article_info,
                   items, listed, item_of, cmatch, navs, sfVars, arVars>>

\* variant: an Article equal in title and link to an earlier one is dropped
AppendArticle_Dedup(as, a) ==
    IF \E k \in DOMAIN as : as[k].title = a.title /\ as[k].link = a.link
    THEN as ELSE Append(as, a)

\* articles.append(article)
AppendArticle(as, a) == Append(as, a)

\* lines 240-246: Article(...) and articles.append(article)
BuildArticle ==
    /\ \/ pc = "build"
       \/ pc = "recover" /\ ~NeedsRecovery(article_data[idx])
    /\ articles' = AppendArticle(articles, Article(article_data[idx]))
    /\ origin' = Append(origin, idx)
    /\ born' = Append(born, calls)
    /\ recov' = Append(recov, IF pc = "build" THEN "recovered" ELSE "skipped")
    /\ pmatch' = Append(pmatch, hit)
    /\ pc' = RecoverNextPc(idx, article_data)
    /\ idx' = idx + 1
    /\ sel' = 0
    /\ tried' = <<>>
    /\ hit' = <<>>
    /\ UNCHANGED <<orchVars, exc, sessVars, page, containers, article_info,
                   article_data, items, listed, item_of, cmatch, navs, sfVars, arVars>>

Next ==
    \/ StartAttempt
    \/ CreateDriver
    \/ GetListing
    \/ WaitListing
    \/ FindContainers
    \/ ItemTitle
    \/ ItemKicker
    \/ ItemImage
    \/ RecoverNavigate
    \/ RecoverWait
    \/ RecoverKicker
    \/ BuildArticle
    \/ Teardown
    \/ ReturnArticles
    \/ WarnNoArticles
    \/ RetryAfterFault
    \/ WakeUp
    \/ RaiseLast
    \/ ReturnEmpty

Spec == Init /\ [][Next]_vars

\* ------------------------------------- _safe_find_element called on its own
Defaults == {<<>>, <<"a">>, NoneVal}

InitFind ==
    /\ ScraperInit
    /\ sf_in \in [lookup : Lookups, by : Bys, default : Defaults]
    /\ sf_out = Pending
    /\ ArticleIdle

CallSafeFind ==
    /\ sf_out = Pending
    /\ sf_out' = safe_find_element(sf_in.lookup, sf_in.by, sf_in.default)
    /\ UNCHANGED <<pc, orchVars, exc, sessVars, page, idx, sel, tried, hit, listVars,
                   recVars, sf_in, arVars>>

NextFind == CallSafeFind

SpecFind == InitFind /\ [][NextFind]_vars

\* ------------------------------------------------ Article built on its own
\* finalized drafts and the scrape_date values a caller can pass
ArtInfos == [title : {<<"a">>}, kicker : {<<>>, <<"a">>, <<"b">>},
             link : Hrefs, image : Srcs \cup {<<>>}]
PassedDates == {NoDate, IsoFormat(0), IsoFormat(MaxClock)}

\* the scrape starts at clock reading 0
InitArticle ==
    /\ ScraperInit
    /\ FindIdle
    /\ ar_pc = "running"
    /\ ar_in \in [info : ArtInfos, scrape_date : PassedDates, start : {0}]
    /\ ar_out = ArticleNew(<<>>, <<>>, <<>>, <<>>, NoDate, 0)
    /\ now = 0

\* time passes while the session is created and the pages load
ArElapse ==
    /\ ar_pc = "running"
    /\ now < MaxClock
    /\ now' = now + 1
    /\ UNCHANGED <<pc, orchVars, exc, sessVars, page, idx, sel, tried, hit,
                   listVars, recVars, sfVars, ar_pc, ar_in, ar_out>>

\* lines 240-245: Article(title=..., kicker=..., link=..., image=...), reached
\* only after the session was created and the listing loaded, which takes time
ArConstruct ==
    /\ ar_pc = "running"
    /\ now > ar_in.start
    /\ ar_out' = ArticleNew(ar_in.info.title, ar_in.info.kicker, ar_in.info.link,
                            ar_in.info.image, ar_in.scrape_date, now)
    /\ ar_pc' = "built"
    /\ UNCHANGED <<pc, orchVars, exc, sessVars, page, idx, sel, tried, hit,
                   listVars, recVars, sfVars, ar_in, now>>

NextArticle == ArElapse \/ ArConstruct

SpecArticle == InitArticle /\ [][NextArticle]_vars

\* ===================================================================== claims
Terminal == pc \in {"returned", "raised"}

\* scrape_news ended without a non-empty result
Exhausted == pc = "raised" \/ (pc = "returned" /\ result = <<>>)

AllHard == \A i \in DOMAIN outcomes : outcomes[i] = "hard"

\* control is inside _scrape_with_selenium
AttemptPcs == {"create_driver", "get_listing", "wait_listing", "find_containers",
               "item_title", "item_kicker", "item_image", "recover",
               "recover_wait", "recover_kicker", "build", "teardown"}

\* control is inside the body of "with self._create_driver() as driver"
SessionPcs == AttemptPcs \ {"create_driver", "teardown"}

\* C1: when every attempt ends in a raised fault, scrape_news ends by raising
\* the last attempt's fault, after exactly 3 attempts and exactly 2 sleeps.
C1_AllFaultsRaise ==
    (Terminal /\ AllHard) =>
        /\ pc = "raised"
        /\ raised # "none"
        /\ raised = exc
        /\ calls = 3
        /\ Len(outcomes) = 3
        /\ sleeps = 2

C1_Witness ==
    /\ pc = "raised"
    /\ AllHard
    /\ raised = "TimeoutException"
    /\ calls = 3
    /\ sleeps = 2

\* C2: _scrape_with_selenium is invoked at most max_retries times, and an
\* attempt that hands back a non-empty list is followed at once by the return
\* of exactly that list, with no further invocation.
C2_BoundedNoRetryAfterSuccess ==
    /\ [](calls <= max_retries)
    /\ [][(pc = "handle" /\ exc = "none" /\ articles # <<>>)
            => (pc' = "returned" /\ result' = articles /\ calls' = calls)]_vars

C2_Witness ==
    /\ pc = "returned"
    /\ Len(result) >= 1
    /\ outcomes = <<"soft", "ok">>
    /\ calls = 2

\* C3: at most one session is open at any time; inside the with-body exactly
\* the attempt's own, most recently created session is open; none is open
\* before the session is created, after the attempt, during the sleep, or
\* once scrape_news has returned or raised.
C3_SessionScoped ==
    /\ Cardinality(open) <= 1
    /\ pc \in SessionPcs => (driver # 0 /\ driver = calls /\ open = {driver})
    /\ pc \notin (AttemptPcs \ {"create_driver"}) => open = {}

C3_Witness ==
    /\ pc = "sleeping"
    /\ outcomes = <<"hard", "hard">>
    /\ calls = 2
    /\ open = {}

\* C4: a draft whose recovery navigation failed or whose content-ready wait
\* timed out still becomes an Article, unchanged (kicker empty).
C4_FailedRecoveryKeepsDraft ==
    \A i \in DOMAIN recov :
        recov[i] \in {"nav_timeout", "nav_fault", "wait_timeout"} =>
            \E k \in DOMAIN articles :
                origin[k] = i /\ articles[k] = Article(listed[i])

\* C5 as stated: on exhaustion, one hard attempt is enough for a raise, and
\* an empty return means every attempt was soft.
C5_AnyHardRaises ==
    Exhausted =>
        /\ (\E i \in DOMAIN outcomes : outcomes[i] = "hard") => pc = "raised"
        /\ pc = "returned" => \A i \in DOMAIN outcomes : outcomes[i] = "soft"

\* C5 amended: on exhaustion all max_retries attempts were made; a raise means
\* the final attempt was hard and an empty return means the final attempt was
\* soft, whatever the earlier attempts were.
C5_FinalAttemptDecides ==
    Exhausted =>
        /\ Len(outcomes) = max_retries
        /\ pc = "raised" => outcomes[max_retries] = "hard"
        /\ pc = "returned" => outcomes[max_retries] = "soft"

C5_Witness ==
    /\ pc = "returned"
    /\ result = <<>>
    /\ outcomes = <<"hard", "soft", "soft">>

\* C6: [exception, exception, zero-articles] ends in an empty list, not a
\* raise; on exhaustion a hard final attempt raises that attempt's fault and
\* a soft final attempt returns the empty list.
C6_LastAttemptHardOrSoft ==
    /\ (Terminal /\ outcomes = <<"hard", "hard", "soft">>) =>
           (pc = "returned" /\ result = <<>> /\ raised = "none")
    /\ (Exhausted /\ Len(outcomes) > 0) =>
           IF outcomes[Len(outcomes)] = "hard"
           THEN pc = "raised" /\ raised = exc /\ raised \in NavFaults
           ELSE pc = "returned" /\ result = <<>> /\ raised = "none"

C6_Witness ==
    /\ pc = "returned"
    /\ result = <<>>
    /\ outcomes = <<"hard", "hard", "soft">>
    /\ sleeps = 2

\* C7: whatever way the earlier attempt failed, exactly one sleep lies between
\* two consecutive attempts: while attempt number calls runs, calls - 1 sleeps
\* have been made.
C7_OneDelayBetweenAttempts ==
    pc \in AttemptPcs => sleeps = calls - 1

\* C8: every draft and every Article, in the attempt and in the returned list,
\* has a non-empty trimmed title, and only containers that were kept
\* contributed a draft.
C8_TitlesNonEmpty ==
    LET Titled(r) == r.title # <<>> /\ r.title # NoneVal
                     /\ Head(r.title) # " " /\ r.title[Len(r.title)] # " "
    IN  /\ \A k \in DOMAIN article_data : Titled(article_data[k])
        /\ \A k \in DOMAIN articles : Titled(articles[k])
        /\ pc = "returned" => \A k \in DOMAIN result : Titled(result[k])
        /\ Len(article_data) = Cardinality({i \in DOMAIN items : items[i] = "kept"})

C8_Witness ==
    /\ pc = "teardown"
    /\ exc = "none"
    /\ items = <<"blank_title", "kept">>
    /\ Len(articles) = 1

\* v is t without its leading and trailing spaces
IsTrimOf(v, t) ==
    /\ v = <<>> \/ (v[1] # " " /\ v[Len(v)] # " ")
    /\ \E i \in 0..Len(t), j \in 0..Len(t) :
          /\ i + Len(v) + j = Len(t)
          /\ SubSeq(t, i + 1, i + Len(v)) = v
          /\ \A k \in (1..i) \cup ((Len(t) - j + 1)..Len(t)) : t[k] = " "

\* C9: a finished _safe_find_element call has not raised; it gave the default
\* when the lookup failed in any way, the src attribute for a found tag-name
\* lookup, and the trimmed text for any other found lookup.
C9_SafeFindNeverRaises ==
    sf_out # Pending =>
        /\ sf_out.raised = "none"
        /\ sf_in.lookup.find # "ok" => sf_out.value = sf_in.default
        /\ (sf_in.lookup.find = "ok" /\ sf_in.by = TAG_NAME)
               => sf_out.value = sf_in.lookup.src
        /\ (sf_in.lookup.find = "ok" /\ sf_in.by # TAG_NAME)
               => IsTrimOf(sf_out.value, sf_in.lookup.text)

C9_Witness ==
    /\ sf_out # Pending
    /\ sf_in.lookup.find = "WebDriverException"
    /\ sf_in.default = <<"a">>
    /\ sf_out.value = <<"a">>

\* C10: a processed draft was navigated to exactly when its listing-phase
\* kicker was empty and its link non-empty, the number of detail navigations
\* equals the number of such drafts reached so far, and when the attempt
\* ends normally every draft was processed.
C10_RecoveryExactlyWhenNeeded ==
    LET Needs(i) == listed[i].kicker = <<>> /\ listed[i].link \notin {NoneVal, <<>>}
        visiting == pc \in {"recover_wait", "recover_kicker", "build"}
    IN  /\ \A i \in DOMAIN recov : (recov[i] # "skipped") <=> Needs(i)
        /\ visiting => Needs(idx)
        /\ navs = Cardinality({i \in DOMAIN recov : Needs(i)})
                  + (IF visiting THEN 1 ELSE 0)
        /\ (pc = "teardown" /\ exc = "none") => Len(recov) = Len(listed)

C10_Witness ==
    /\ pc = "teardown"
    /\ Len(recov) = 2
    /\ recov[1] = "skipped"
    /\ recov[2] = "recovered"
    /\ navs = 1

\* C11: the container-scoped kicker of a draft is the first non-empty text its
\* list gave; an Article's kicker is that text, or failing that the first
\* non-empty text the page-scoped list gave, and it is empty exactly when both
\* are empty, the whole list having been tried without a match each time it
\* ran; a draft recovery was not invoked for has no page-scoped match.
C11_KickerIsFirstMatch ==
    /\ Len(cmatch) = Len(listed)
    /\ Len(pmatch) = Len(recov)
    /\ \A i \in DOMAIN listed : listed[i].kicker = cmatch[i]
    /\ pc = "item_image" =>
          /\ article_info.kicker = hit
          /\ hit = <<>> => Len(tried) = NumContainerSelectors
    /\ pc = "build" =>
          /\ article_data[idx].kicker = hit
          /\ hit = <<>> => Len(tried) = NumPageSelectors
    /\ pc \in AttemptPcs =>
          /\ Len(origin) = Len(articles)
          /\ \A k \in DOMAIN articles :
                LET i == origin[k]
                IN  /\ articles[k].kicker =
                          (IF cmatch[i] # <<>> THEN cmatch[i] ELSE pmatch[i])
                    /\ (articles[k].kicker = <<>>)
                          <=> (cmatch[i] = <<>> /\ pmatch[i] = <<>>)
                    /\ recov[i] = "skipped" => pmatch[i] = <<>>

C11_Witness ==
    /\ pc = "teardown"
    /\ Len(articles) = 2
    /\ cmatch = << <<"a">>, <<>> >>
    /\ pmatch = << <<>>, <<"b">> >>
    /\ articles[1].kicker = <<"a">>
    /\ articles[2].kicker = <<"b">>

\* C12: the selectors of the running list are evaluated in list order, one
\* after the other; while the list runs nothing non-empty has been seen, so
\* nothing is evaluated after a non-empty text; the list is left without a
\* match only after its last selector.
C12_ShortCircuit ==
    /\ \A j \in DOMAIN tried : tried[j] = j
    /\ pc \in {"item_kicker", "recover_kicker"} =>
          (hit = <<>> /\ sel = Len(tried) + 1)
    /\ pc = "item_kicker" => sel <= NumContainerSelectors
    /\ pc = "recover_kicker" => sel <= NumPageSelectors
    /\ pc = "item_image" =>
          IF hit # <<>> THEN Len(tried) \in 1..NumContainerSelectors
                        ELSE Len(tried) = NumContainerSelectors
    /\ pc = "build" =>
          IF hit # <<>> THEN Len(tried) \in 1..NumPageSelectors
                        ELSE Len(tried) = NumPageSelectors

C12_Witness ==
    /\ pc = "build"
    /\ tried = <<1, 2, 3>>
    /\ hit = <<"b">>
    /\ article_data[idx].kicker = <<"b">>

\* C13: while the listing loop runs no fault is in flight and exactly the
\* containers before the current one have been examined; once the loop is
\* over every container was examined, whatever faults single items had, and
\* the drafts are exactly the kept containers.
C13_ItemFaultSkipsOnlyItem ==
    /\ pc \in {"item_title", "item_kicker", "item_image"} =>
          (exc = "none" /\ idx <= containers /\ Len(items) = idx - 1)
    /\ pc \in {"recover", "recover_wait", "recover_kicker", "build"} =>
          (exc = "none" /\ Len(items) = containers)
    /\ (pc = "teardown" /\ items # <<>>) =>
          (exc = "none" /\ Len(items) = containers)
    /\ Len(item_of) = Len(article_data)
    /\ \A i \in DOMAIN item_of :
          item_of[i] \in DOMAIN items /\ items[item_of[i]] = "kept"
    /\ \A c \in DOMAIN items :
          items[c] = "kept" <=> \E i \in DOMAIN item_of : item_of[i] = c

C13_Witness ==
    /\ pc = "teardown"
    /\ exc = "none"
    /\ items = <<"fault", "kept">>
    /\ item_of = <<2>>
    /\ Len(articles) = 1

\* C14: drafts follow the order of their containers and Articles the order of
\* their drafts, each Article carrying its draft's fields; every draft that
\* reached Article construction is in the list, so a draft equal to an earlier
\* one yields a second Article.
C14_DomOrderNoDedup ==
    pc \in AttemptPcs =>
        /\ Len(origin) = Len(articles)
        /\ Len(item_of) = Len(article_data)
        /\ \A i, j \in DOMAIN item_of : i < j => item_of[i] < item_of[j]
        /\ \A k, l \in DOMAIN origin : k < l => origin[k] < origin[l]
        /\ \A k \in DOMAIN origin :
              /\ origin[k] \in DOMAIN article_data
              /\ articles[k].title = article_data[origin[k]].title
              /\ articles[k].link = article_data[origin[k]].link
              /\ articles[k].image = article_data[origin[k]].image
        /\ \A i \in DOMAIN recov :
              recov[i] \in {"skipped", "recovered"} =>
                  \E k \in DOMAIN origin : origin[k] = i

C14_Witness ==
    /\ pc = "teardown"
    /\ item_of = <<1, 2>>
    /\ origin = <<1, 2>>
    /\ Len(articles) = 2
    /\ articles[1] = articles[2]

\* C15: the Articles at hand were all built by the current invocation of
\* _scrape_with_selenium; a non-empty returned list is the list of the
\* invocation that ended "ok", the last one; an attempt in which a fault is in
\* flight holds no draft and no Article.
C15_NoPartialResults ==
    /\ Len(born) = Len(articles)
    /\ \A k \in DOMAIN born : born[k] = calls
    /\ (pc = "returned" /\ result # <<>>) =>
          (result = articles /\ Len(outcomes) = calls /\ outcomes[calls] = "ok")
    /\ exc # "none" => (articles = <<>> /\ article_data = <<>>)

C15_Witness ==
    /\ pc = "returned"
    /\ outcomes = <<"hard", "ok">>
    /\ Len(result) = 1
    /\ born = <<2>>

\* C16: the image of every Article is a string, never None.
C16_ImageNeverNull ==
    \A k \in DOMAIN articles : articles[k].image # NoneVal

Phase ==
    IF pc = "get_listing" THEN "NavigatingListing"
    ELSE IF pc = "wait_listing" THEN "WaitingReady"
    ELSE IF pc \in {"find_containers", "item_title", "item_kicker", "item_image"}
         THEN "ExtractingListing"
    ELSE IF pc \in {"recover", "recover_wait", "recover_kicker", "build"}
         THEN "RecoveringKickers"
    ELSE IF pc = "teardown" /\ driver # 0
         THEN IF exc = "none" THEN "Done" ELSE "Failed"
    ELSE "Outside"

\* the phases a phase may hand over to (a listing without drafts leaves the
\* recovery loop nothing to do)
PhaseSuccessors(ph) ==
    IF ph = "NavigatingListing" THEN {"WaitingReady"}
    ELSE IF ph = "WaitingReady" THEN {"ExtractingListing"}
    ELSE IF ph = "ExtractingListing" THEN {"RecoveringKickers", "Done"}
    ELSE IF ph = "RecoveringKickers" THEN {"Done"}
    ELSE {}

ListingPcs == {"find_containers", "item_title", "item_kicker", "item_image"}

\* C19: the listing is extracted in full before the first detail page is
\* visited; once a detail page was navigated to, no step of the attempt reads
\* the listing page or a container again, no draft is added, and recovery
\* works on the drafts as extracted (only the kicker is filled in).
C19_ListingBeforeDetail ==
    /\ [](pc \in ListingPcs => (navs = 0 /\ page = "listing" /\ recov = <<>>))
    /\ [](page = "detail" => navs > 0)
    /\ [](navs > 0 =>
            /\ Phase \in {"RecoveringKickers", "Done"}
            /\ Len(items) = containers
            /\ Len(listed) = Len(article_data)
            /\ \A k \in DOMAIN article_data :
                  /\ article_data[k].title = listed[k].title
                  /\ article_data[k].link = listed[k].link
                  /\ article_data[k].image = listed[k].image)
    /\ [][(navs > 0 /\ pc # "teardown") =>
            (/\ pc' \notin ListingPcs
             /\ items' = items
             /\ listed' = listed
             /\ containers' = containers
             /\ article_info' = article_info
             /\ Len(article_data') = Len(article_data))]_vars

C19_Witness ==
    /\ pc = "recover_kicker"
    /\ page = "detail"
    /\ navs = 2
    /\ containers = 2
    /\ items = <<"kept", "kept">>
    /\ Len(articles) = 1

\* steps one draft's recovery, one container's extraction and one attempt
\* can take at most
RecoverSpan == NumPageSelectors + 4
ItemSpan == NumContainerSelectors + 4
AttemptSpan == MaxItems * (RecoverSpan + ItemSpan) + 12

\* an upper bound on the steps scrape_news still has to take
Rank ==
    IF Terminal THEN 0
    ELSE (max_retries - attempt) * AttemptSpan +
         (IF pc = "sleeping" THEN 1
          ELSE IF pc = "handle" THEN 2
          ELSE IF pc = "teardown" THEN 3
          ELSE IF pc \in {"recover", "recover_wait", "recover_kicker", "build"}
               THEN 3 + (Len(article_data) - idx) * RecoverSpan +
                    (IF pc = "recover" THEN NumPageSelectors + 3
                     ELSE IF pc = "recover_wait" THEN NumPageSelectors + 2
                     ELSE IF pc = "recover_kicker" THEN NumPageSelectors + 2 - sel
                     ELSE 1)
          ELSE IF pc \in {"item_title", "item_kicker", "item_image"}
               THEN 4 + MaxItems * RecoverSpan + (containers - idx) * ItemSpan +
                    (IF pc = "item_title" THEN NumContainerSelectors + 3
                     ELSE IF pc = "item_kicker" THEN NumContainerSelectors + 2 - sel
                     ELSE 1)
          ELSE IF pc = "find_containers" THEN AttemptSpan - 5
          ELSE IF pc = "wait_listing" THEN AttemptSpan - 4
          ELSE IF pc = "get_listing" THEN AttemptSpan - 3
          ELSE IF pc = "create_driver" THEN AttemptSpan - 2
          ELSE AttemptSpan - 1)

\* C20: scrape_news terminates: every step brings it closer to its end and it
\* is never stuck before the end; it ends in exactly one of a non-empty list,
\* an empty list or a raised fault, makes at most max_retries attempts with at
\* most one sleep between two of them, and does not sleep after the final
\* attempt.
C20_Terminates ==
    /\ [](Rank \in 0..(max_retries + 1) * AttemptSpan)
    /\ [][Rank' < Rank]_vars
    /\ [](~Terminal => ENABLED Next)
    /\ [](Terminal <=> Rank = 0)
    /\ [](pc = "returned" => raised = "none")
    /\ [](pc = "raised" => (raised # "none" /\ result = <<>>))
    /\ [](Terminal => Len(outcomes) = calls)
    /\ [](calls <= max_retries /\ attempt <= max_retries)
    /\ [](sleeps <= max_retries - 1 /\ sleeps <= calls)
    /\ [](Terminal => sleeps < calls)
    /\ [](pc = "sleeping" => calls < max_retries)
    /\ [][sleeps' # sleeps => (sleeps' = sleeps + 1 /\ calls < max_retries)]_vars

C20_Witness ==
    /\ pc = "returned"
    /\ result = <<>>
    /\ calls = max_retries
    /\ sleeps = 1
    /\ outcomes = <<"soft", "hard", "soft">>
====
